---- MODULE Spec2Model ----
(***************************************************************************)
(* Inventory stock ledger and warehouse-transfer engine of ErgoLab.        *)
(*                                                                         *)
(* The committed database state is the three tables inventory_stocks,      *)
(* stock_transactions and transfers (with their transfer_items).  Every    *)
(* HTTP request runs in its own SQLAlchemy session (get_db): the session   *)
(* reads committed rows with one SELECT per query, keeps the rows it has   *)
(* loaded in its identity map, changes them in memory, and writes them     *)
(* back with absolute values when the handler calls db.commit().  A        *)
(* handler that raises never commits, and get_db closes the session,       *)
(* which discards everything the session held.                             *)
(*                                                                         *)
(* Beside the database stand the alerts table, written by the low-stock    *)
(* sweep and by the resolution of an alert (api/analytics.py), and the     *)
(* Redis cache of the inventory reads (core/cache.py), which the stock     *)
(* transaction invalidates after its commit.  A stock transaction that     *)
(* leaves its row at or below the material's minimum then notifies the     *)
(* admins and managers of the users table: emails queued as background     *)
(* tasks (services/email_service.py) and a push through Firebase           *)
(* (services/fcm_service.py).                                              *)
(***************************************************************************)
EXTENDS Integers, Sequences, FiniteSets, Bags, TLC

\* Rows of the warehouses and materials tables, and the ids a request may name
\* (one id of each kind names no row).
Warehouses == {1, 2}
Materials == {1}
WarehouseIds == Warehouses \cup {3}
MaterialIds == Materials \cup {2}

\* models/inventory.py TransactionType
TransactionTypes ==
    {"purchase", "transfer_out", "transfer_in", "consumption", "return", "adjustment"}

\* schemas/inventory.py StockTransactionCreate.quantity: gt=0
Quantities == {1, 2}

\* schemas/transfer.py TransferItemCreate.quantity: any int
ItemQuantities == {-1, 1}

\* The item lists a create request may carry (schemas/transfer.py TransferCreate.items:
\* any list, the empty one included).
ItemLists ==
    {<<>>} \cup
    {<<[material_id |-> 1, quantity |-> q]>> : q \in ItemQuantities} \cup
    {<<[material_id |-> 1, quantity |-> 1], [material_id |-> 1, quantity |-> 1]>>}

\* Concurrent request slots.
Clients == {1, 2}

\* The number of requests a behaviour starts: of any kind, and of stock
\* transactions alone.
MaxRequests == 4
MaxTransactions == 3

\* The number of create requests a behaviour starts: among other requests, and alone.
MaxTransfers == 1
MaxCreates == 3

\* The number of requests a behaviour with sweeps starts.
MaxAlertRequests == 5

\* The number of requests a behaviour with cached reads starts.
MaxCacheRequests == 4

\* The number of requests a behaviour with notifications starts.
MaxNotifyRequests == 2

\* models/material.py min_stock_level, per material
min_stock_level == [m \in Materials |-> 1]

VARIABLES
    stock,      \* inventory_stocks: (warehouse_id, material_id) -> quantity, one row per pair
    ledger,     \* stock_transactions: a bag of rows
    transfers,  \* transfers, indexed by id, each with its transfer_items
    sess,       \* per client: the request in flight and its SQLAlchemy session
    budget,     \* number of requests the behaviour may still start
    creates,    \* number of create requests the behaviour may still start
    maxBusy,    \* how many requests may be in flight at once
    alerts,     \* alerts, indexed by id
    cache,      \* the Redis keys of the application: key -> cached value
    redisUp,    \* whether the Redis server answers
    connected,  \* CacheService._redis / _connected: "unset", "connected" or "failed"
    users,      \* users, by id, each with its notification preferences and device token
    smtpUp,     \* whether the mail server accepts a message
    fcmUp       \* whether Firebase accepts a multicast

vars == <<stock, ledger, transfers, sess, budget, creates, maxBusy,
          alerts, cache, redisUp, connected, users, smtpUp, fcmUp>>

\* The users table and the delivery backends of the notifications.
notifyVars == <<users, smtpUp, fcmUp>>

\* The state of the cache service and of its backend.
cacheVars == <<cache, redisUp, connected>>

EmptyFcn == [p \in {} |-> 0]

\* A client with no request: no session.
NoRequest ==
    [op |-> "none", pc |-> "idle", code |-> 0, detail |-> "none",
     wh |-> 0, mat |-> 0, kind |-> "none", qty |-> 0, tid |-> 0,
     from |-> 0, to |-> 0, items |-> <<>>, idx |-> 0,
     loaded |-> EmptyFcn, added |-> <<>>, newLedger |-> EmptyBag,
     count |-> 0, newq |-> 0, key |-> <<>>, result |-> <<>>, low |-> <<>>,
     newAlerts |-> <<>>, queued |-> {}, emailed |-> {}, pushed |-> {}]

Busy(c) == sess[c].pc \notin {"idle", "done"}

\* A request is taken by the lowest free slot, while fewer than maxBusy are in flight.
Accepts(c) ==
    /\ ~Busy(c)
    /\ \A d \in Clients : d < c => Busy(d)
    /\ Cardinality({d \in Clients : Busy(d)}) < maxBusy
    /\ budget > 0

\* The response of a finished request; the session is closed (get_db's finally).
Response(s, code, detail) ==
    [NoRequest EXCEPT !.op = s.op, !.pc = "done", !.code = code, !.detail = detail,
                      !.wh = s.wh, !.mat = s.mat, !.kind = s.kind, !.qty = s.qty,
                      !.tid = s.tid, !.idx = s.idx, !.newq = s.newq,
                      !.key = s.key, !.result = s.result,
                      !.queued = s.queued, !.emailed = s.emailed, !.pushed = s.pushed]

----------------------------------------------------------------------------
\* The cache service (core/cache.py CacheService) and the cached reads

\* core/cache.py CacheKeys: a key is its namespace, its name and, for a warehouse, the
\* id ("inventory:warehouse:{id}", "inventory:low-stock", "dashboard:stats"); the
\* prefix "ergolab:" that _generate_key puts before every key is left out.
inventory_warehouse(warehouse_id) ==
    [ns |-> "inventory", name |-> "warehouse", id |-> warehouse_id]
inventory_low_stock == [ns |-> "inventory", name |-> "low-stock", id |-> 0]
dashboard_stats == [ns |-> "dashboard", name |-> "stats", id |-> 0]

\* cache.py:23-43  the redis property: the first use connects and pings; a failed
\* first attempt leaves _redis set and _connected False, so it is never repeated.
Connect(conn, up) ==
    IF conn # "unset" THEN conn ELSE IF up THEN "connected" ELSE "failed"

\* An operation reaches the server when the property returns the client and the call
\* on it does not raise.
Reaches(conn, up) == Connect(conn, up) = "connected" /\ up

\* cache.py:49-62  get: the value of the key, or a miss; an exception is logged.
cache_get(ch, conn, up, key) ==
    [hit |-> Reaches(conn, up) /\ key \in DOMAIN ch,
     value |-> IF Reaches(conn, up) /\ key \in DOMAIN ch THEN ch[key] ELSE {},
     raised |-> FALSE]

\* cache.py:64-79  set
cache_set(ch, conn, up, key, value) ==
    [cache |-> IF Reaches(conn, up) THEN (key :> value) @@ ch ELSE ch,
     ok |-> Reaches(conn, up),
     raised |-> FALSE]

\* cache_delete that lets the exception of the Redis call through.
cache_delete_raises(ch, conn, up, key) ==
    [cache |-> IF Reaches(conn, up) THEN [k \in DOMAIN ch \ {key} |-> ch[k]] ELSE ch,
     ok |-> Reaches(conn, up),
     raised |-> Connect(conn, up) = "connected" /\ ~up]

\* cache.py:81-91  delete
cache_delete(ch, conn, up, key) ==
    [cache |-> IF Reaches(conn, up) THEN [k \in DOMAIN ch \ {key} |-> ch[k]] ELSE ch,
     ok |-> Reaches(conn, up),
     raised |-> FALSE]

\* cache.py:93-107  clear_pattern("<ns>:*")
clear_pattern(ch, conn, up, ns) ==
    [cache |-> IF Reaches(conn, up)
               THEN [k \in {x \in DOMAIN ch : x.ns # ns} |-> ch[k]]
               ELSE ch,
     count |-> IF Reaches(conn, up)
               THEN Cardinality({x \in DOMAIN ch : x.ns = ns})
               ELSE 0,
     raised |-> FALSE]

\* inventory.py:35-66 / 82-111  the rows the query of a cached read returns: the stock
\* rows of the warehouse, or the stock rows at or below the minimum of their material.
DbRows(st, key) ==
    {[warehouse_id |-> p[1], material_id |-> p[2], quantity |-> st[p]] :
        p \in {x \in DOMAIN st :
                  IF key.name = "warehouse" THEN x[1] = key.id
                  ELSE st[x] <= min_stock_level[x[2]]}}

\* GET /inventory/warehouse/{id} and GET /inventory/low-stock, up to the query:
\* cache.get, the return of a cached value that is not empty, else the SELECT.
ReadBegin(c, key) ==
    /\ Accepts(c)
    /\ budget' = budget - 1
    /\ UNCHANGED <<stock, ledger, transfers, creates, maxBusy, alerts, cache, redisUp,
                   notifyVars>>
    /\ connected' = Connect(connected, redisUp)
    /\ LET s0 == [NoRequest EXCEPT !.op = "read", !.key = key]
           cached_data == cache_get(cache, connected, redisUp, key)
       IN  sess' = [sess EXCEPT ![c] =
             IF cached_data.raised THEN Response(s0, 500, "Internal Server Error")
             ELSE IF cached_data.hit /\ cached_data.value # {}
             THEN Response([s0 EXCEPT !.result = cached_data.value], 200, "cached")
             ELSE [s0 EXCEPT !.pc = "ready", !.result = DbRows(stock, key)]]

\* inventory.py:69-71 / 114-116  cache.set of the result and the return
ReadSet(c) ==
    /\ sess[c].op = "read" /\ sess[c].pc = "ready"
    /\ UNCHANGED <<stock, ledger, transfers, budget, creates, maxBusy, alerts, redisUp,
                   notifyVars>>
    /\ connected' = Connect(connected, redisUp)
    /\ LET r == cache_set(cache, connected, redisUp, sess[c].key, sess[c].result)
       IN  IF r.raised
           THEN /\ cache' = cache
                /\ sess' = [sess EXCEPT ![c] =
                              Response(sess[c], 500, "Internal Server Error")]
           ELSE /\ cache' = r.cache
                /\ sess' = [sess EXCEPT ![c] = Response(sess[c], 200, "computed")]

\* cache.py:70-74  setex: a key disappears when its time to live has passed.
Expire(key) ==
    /\ key \in DOMAIN cache
    /\ cache' = [k \in DOMAIN cache \ {key} |-> cache[k]]
    /\ UNCHANGED <<stock, ledger, transfers, sess, budget, creates, maxBusy, alerts,
                   redisUp, connected, notifyVars>>

\* The Redis server stops answering, and answers again; it keeps its keys.
RedisFails ==
    /\ redisUp /\ redisUp' = FALSE
    /\ UNCHANGED <<stock, ledger, transfers, sess, budget, creates, maxBusy, alerts,
                   cache, connected, notifyVars>>

RedisRecovers ==
    /\ ~redisUp /\ redisUp' = TRUE
    /\ UNCHANGED <<stock, ledger, transfers, sess, budget, creates, maxBusy, alerts,
                   cache, connected, notifyVars>>

----------------------------------------------------------------------------
\* The transaction applier (api/inventory.py create_stock_transaction)

Incoming == {"purchase", "transfer_in", "return"}
Outgoing == {"transfer_out", "consumption"}

\* Sufficient with an off-by-one: a request for the whole quantity of the pair is refused.
SufficientStrict(cur, q) == cur > q

\* inventory.py:162  `if current_qty < transaction.quantity: raise`
Sufficient(cur, q) == ~(cur < q)

\* ApplyTransaction with a relative adjustment: the value is added to the quantity.
ApplyAdjustmentRelative(kind, cur, q) ==
    IF kind \in Incoming \cup {"adjustment"} THEN cur + q
    ELSE IF kind \in Outgoing THEN cur - q
    ELSE cur

\* ApplyTransaction with return in the wrong branch: a return is taken out of the quantity.
ApplyReturnOutgoing(kind, cur, q) ==
    IF kind \in {"purchase", "transfer_in"} THEN cur + q
    ELSE IF kind \in Outgoing \cup {"return"} THEN cur - q
    ELSE IF kind = "adjustment" THEN q
    ELSE cur

\* inventory.py:151-166  the new quantity of the row
ApplyTransaction(kind, cur, q) ==
    IF kind \in Incoming THEN cur + q
    ELSE IF kind \in Outgoing THEN cur - q
    ELSE IF kind = "adjustment" THEN q
    ELSE cur

\* inventory.py:171-181 / transfers.py:135-150  a stock_transactions row
LedgerRow(wh, mat, kind, q, ref) ==
    [warehouse_id |-> wh, material_id |-> mat, transaction_type |-> kind,
     quantity |-> q, reference_id |-> ref]

\* The session's unit of work at db.commit(): INSERT of the added rows, UPDATE of the
\* loaded rows whose quantity differs from the loaded one (an absolute SET), INSERT of
\* the new stock_transactions rows, all in one database transaction.  The unique
\* constraint unique_warehouse_material fails the whole flush.
AddedPairs(s) == {<<s.added[i].wh, s.added[i].mat>> : i \in DOMAIN s.added}

\* IntegrityError without the unique constraint: every INSERT is accepted.
IntegrityErrorNever(st, s) == FALSE

\* models/inventory.py:22-24  UniqueConstraint("warehouse_id", "material_id")
IntegrityError(st, s) ==
    \/ \E i \in DOMAIN s.added : <<s.added[i].wh, s.added[i].mat>> \in DOMAIN st
    \/ \E i, j \in DOMAIN s.added :
          i # j /\ s.added[i].wh = s.added[j].wh /\ s.added[i].mat = s.added[j].mat

\* FlushStock that inserts a new row with the column default 0, not with the quantity
\* of the row object.
FlushStockAddedAtZero(st, s) ==
    [p \in DOMAIN st \cup AddedPairs(s) |->
        IF p \in AddedPairs(s) THEN 0
        ELSE IF p \in DOMAIN s.loaded /\ s.loaded[p].cur # s.loaded[p].orig
        THEN s.loaded[p].cur
        ELSE st[p]]

FlushStock(st, s) ==
    [p \in DOMAIN st \cup AddedPairs(s) |->
        IF p \in AddedPairs(s)
        THEN s.added[CHOOSE i \in DOMAIN s.added :
                         <<s.added[i].wh, s.added[i].mat>> = p].quantity
        ELSE IF p \in DOMAIN s.loaded /\ s.loaded[p].cur # s.loaded[p].orig
        THEN s.loaded[p].cur
        ELSE st[p]]

\* FlushLedger without the db.add: the new stock_transactions rows are not written.
FlushLedgerLost(lg, s) == lg

FlushLedger(lg, s) == lg (+) s.newLedger

\* Close with a commit in the finally: closing the session writes what it holds.
CloseCommits(st, lg, s) == [stock |-> FlushStock(st, s), ledger |-> FlushLedger(lg, s)]

\* core/database.py get_db: a handler that raises leaves through `finally: db.close()`
\* without a commit, so the rows the session added or changed are discarded.
Close(st, lg, s) == [stock |-> st, ledger |-> lg]

\* POST /inventory/transaction, up to the commit: the existence checks, the SELECT of
\* the stock row (a new row object with quantity 0 when there is none), the effect of
\* the kind on the row object, and the new stock_transactions row.
TxBegin(c, wh, mat, kind, q) ==
    /\ Accepts(c)
    /\ budget' = budget - 1
    /\ UNCHANGED <<transfers, creates, maxBusy, alerts, cacheVars, notifyVars>>
    /\ LET s0 == [NoRequest EXCEPT !.op = "tx", !.wh = wh, !.mat = mat,
                                   !.kind = kind, !.qty = q]
           s404 == [NoRequest EXCEPT !.op = "tx", !.wh = wh, !.mat = mat]
           p == <<wh, mat>>
           exists == p \in DOMAIN stock
           cur == IF exists THEN stock[p] ELSE 0
           \* inventory.py:134-149
           s1 == [s0 EXCEPT
                    !.loaded = IF exists THEN p :> [orig |-> cur, cur |-> cur]
                               ELSE EmptyFcn,
                    !.added = IF exists THEN <<>>
                              ELSE <<[wh |-> wh, mat |-> mat, quantity |-> 0]>>]
           new == ApplyTransaction(kind, cur, q)
           \* inventory.py:151-181
           s2 == [s1 EXCEPT
                    !.pc = "ready",
                    !.loaded = IF exists THEN p :> [orig |-> cur, cur |-> new]
                               ELSE EmptyFcn,
                    !.added = IF exists THEN <<>>
                              ELSE <<[wh |-> wh, mat |-> mat, quantity |-> new]>>,
                    !.newLedger = SetToBag({LedgerRow(wh, mat, kind, q, 0)})]
       IN  IF wh \notin Warehouses
           THEN /\ sess' = [sess EXCEPT ![c] = Response(s404, 404, "Warehouse not found")]
                /\ stock' = Close(stock, ledger, s0).stock
                /\ ledger' = Close(stock, ledger, s0).ledger
           ELSE IF mat \notin Materials
           THEN /\ sess' = [sess EXCEPT ![c] = Response(s404, 404, "Material not found")]
                /\ stock' = Close(stock, ledger, s0).stock
                /\ ledger' = Close(stock, ledger, s0).ledger
           ELSE IF kind \in Outgoing /\ ~Sufficient(cur, q)
           THEN /\ sess' = [sess EXCEPT ![c] = Response(s1, 400, "Insufficient stock")]
                /\ stock' = Close(stock, ledger, s1).stock
                /\ ledger' = Close(stock, ledger, s1).ledger
           ELSE /\ sess' = [sess EXCEPT ![c] = s2]
                /\ UNCHANGED <<stock, ledger>>

\* db.commit() and db.refresh(stock) of create_stock_transaction (inventory.py:183-184):
\* the refreshed row holds the new_quantity of the response.
TxCommit(c) ==
    /\ sess[c].op = "tx" /\ sess[c].pc = "ready"
    /\ UNCHANGED <<transfers, budget, creates, maxBusy, alerts, cacheVars, notifyVars>>
    /\ IF IntegrityError(stock, sess[c])
       THEN /\ UNCHANGED <<stock, ledger>>
            /\ sess' = [sess EXCEPT ![c] = Response(sess[c], 500, "IntegrityError")]
       ELSE /\ stock' = FlushStock(stock, sess[c])
            /\ ledger' = FlushLedger(ledger, sess[c])
            /\ sess' = [sess EXCEPT ![c] =
                 [Response([sess[c] EXCEPT !.newq = stock'[<<sess[c].wh, sess[c].mat>>]],
                           201, "Transaction completed")
                    EXCEPT !.pc = "committed"]]

\* Committed that holds before db.commit() too: the statements after the commit may
\* run ahead of it.
CommittedOrNot(s) == s.pc \in {"ready", "committed"}

\* inventory.py:183-186  the statements after db.commit() run when it has returned
Committed(s) == s.pc = "committed"

\* The low-stock notifications of a stock transaction (inventory.py:192-252)

\* models/user.py UserRole
UserRole == {"admin", "manager", "supervisor", "worker", "viewer"}

\* models/notification.py NotificationPreferences: the row of a user, when it exists,
\* with its low-stock columns.
NoPrefs == [exists |-> FALSE, email_low_stock |-> TRUE, push_low_stock |-> FALSE]
Prefs(email_low_stock, push_low_stock) ==
    [exists |-> TRUE, email_low_stock |-> email_low_stock,
     push_low_stock |-> push_low_stock]

\* models/user.py User with what the notifications read of it: email says that the
\* address is not empty, token that the user has an active DeviceToken.
User(role, is_active, email, prefs, token) ==
    [role |-> role, is_active |-> is_active, email |-> email, prefs |-> prefs,
     token |-> token]

\* inventory.py:193-211  the users an email task is queued for: the admins and
\* managers (active or not) with an address, unless their preferences row has
\* email_low_stock off.
EmailRecipients(us) ==
    {u \in DOMAIN us :
        /\ us[u].role \in {"admin", "manager"}
        /\ us[u].email
        /\ ~(us[u].prefs.exists /\ ~us[u].prefs.email_low_stock)}

\* send_notification whose send error escapes.
send_notification_raises(tokens, up) ==
    [delivered |-> IF up THEN tokens ELSE {}, raised |-> tokens # {} /\ ~up]

\* fcm_service.py:36-93  send_notification: nothing without tokens or without an
\* initialized Firebase app; an exception of send_multicast is caught and None is
\* returned.  A token is named by its user; `up` says that Firebase is initialized
\* and accepts the multicast.
send_notification(tokens, up) ==
    [delivered |-> IF tokens = {} THEN {} ELSE IF up THEN tokens ELSE {},
     raised |-> FALSE]

\* fcm_service.py:143-175  send_to_role: the active device tokens of the active users
\* of the role; the notification preferences are not read.
send_to_role(us, role, up) ==
    send_notification({u \in DOMAIN us :
                          us[u].role = role /\ us[u].is_active /\ us[u].token}, up)

\* inventory.py:186-254  what follows the commit: the four cache calls (none raises;
\* an exception of one would leave the handler as a 500) and, when the refreshed
\* quantity is at or below the material's min_stock_level, the email tasks queued for
\* after the response and the push to the managers and to the admins; then the return.
TxInvalidate(c) ==
    /\ sess[c].op = "tx" /\ Committed(sess[c])
    /\ UNCHANGED <<stock, ledger, transfers, budget, creates, maxBusy, alerts, redisUp,
                   notifyVars>>
    /\ LET s == sess[c]
           conn == Connect(connected, redisUp)
           d1 == cache_delete(cache, connected, redisUp, inventory_warehouse(s.wh))
           d2 == cache_delete(d1.cache, conn, redisUp, inventory_low_stock)
           c1 == clear_pattern(d2.cache, conn, redisUp, "inventory")
           c2 == clear_pattern(c1.cache, conn, redisUp, "dashboard")
           low == s.newq <= min_stock_level[s.mat]
           none == send_notification({}, fcmUp)
           manager == IF low THEN send_to_role(users, "manager", fcmUp) ELSE none
           admin == IF low /\ ~manager.raised
                    THEN send_to_role(users, "admin", fcmUp) ELSE none
       IN  /\ connected' = conn
           /\ IF d1.raised \/ d2.raised \/ c1.raised \/ c2.raised
              THEN /\ cache' = cache
                   /\ sess' = [sess EXCEPT ![c] =
                                 Response(s, 500, "Internal Server Error")]
              ELSE /\ cache' = c2.cache
                   /\ sess' = [sess EXCEPT ![c] =
                        IF manager.raised \/ admin.raised
                        THEN Response([s EXCEPT !.pushed = manager.delivered],
                                      500, "Internal Server Error")
                        ELSE [s EXCEPT
                                !.pc = "done",
                                !.queued = IF low THEN EmailRecipients(users) ELSE {},
                                !.pushed = manager.delivered \cup admin.delivered]]

\* email_service.py:36-88  one background task of a returned stock transaction:
\* send_low_stock_alert to user u.  send_email re-raises what the mail server raises,
\* and the exception ends the run of the response's background tasks, the remaining
\* ones included.
EmailTask(c, u) ==
    /\ sess[c].op = "tx" /\ sess[c].pc = "done"
    /\ u \in sess[c].queued
    /\ UNCHANGED <<stock, ledger, transfers, budget, creates, maxBusy, alerts, cacheVars,
                   notifyVars>>
    /\ sess' = [sess EXCEPT ![c] =
         IF smtpUp THEN [@ EXCEPT !.queued = @ \ {u}, !.emailed = @ \cup {u}]
         ELSE [@ EXCEPT !.queued = {}]]

\* The mail server stops accepting messages, and accepts them again.
SmtpFails ==
    /\ smtpUp /\ smtpUp' = FALSE
    /\ UNCHANGED <<stock, ledger, transfers, sess, budget, creates, maxBusy, alerts,
                   cacheVars, users, fcmUp>>

SmtpRecovers ==
    /\ ~smtpUp /\ smtpUp' = TRUE
    /\ UNCHANGED <<stock, ledger, transfers, sess, budget, creates, maxBusy, alerts,
                   cacheVars, users, fcmUp>>

\* Firebase stops accepting multicasts, and accepts them again.
FcmFails ==
    /\ fcmUp /\ fcmUp' = FALSE
    /\ UNCHANGED <<stock, ledger, transfers, sess, budget, creates, maxBusy, alerts,
                   cacheVars, users, smtpUp>>

FcmRecovers ==
    /\ ~fcmUp /\ fcmUp' = TRUE
    /\ UNCHANGED <<stock, ledger, transfers, sess, budget, creates, maxBusy, alerts,
                   cacheVars, users, smtpUp>>

----------------------------------------------------------------------------
\* The transfer state machine (api/transfers.py)

\* POST /transfers, up to the INSERT: the existence checks and the count of transfers.
CreateBegin(c, from, to, items) ==
    /\ Accepts(c)
    /\ creates > 0
    /\ budget' = budget - 1
    /\ creates' = creates - 1
    /\ UNCHANGED <<stock, ledger, transfers, maxBusy, alerts, cacheVars, notifyVars>>
    /\ LET s0 == [NoRequest EXCEPT !.op = "create", !.from = from, !.to = to,
                                   !.items = items]
       IN  sess' = [sess EXCEPT ![c] =
             IF from \notin Warehouses THEN Response(s0, 404, "From warehouse not found")
             ELSE IF to \notin Warehouses THEN Response(s0, 404, "To warehouse not found")
             ELSE [s0 EXCEPT !.pc = "ready", !.count = Len(transfers)]]

\* transfers.py:64  the sequence part of transfer_number
TransferNumber(count) == count + 1

\* Transfer created as already received: received_at is set at creation.
TransferReceived(number, s) ==
    [number |-> number, from |-> s.from, to |-> s.to, items |-> s.items,
     status |-> "pending", received |-> TRUE]

\* transfers.py:66-84  the Transfer row of create_transfer and its TransferItem rows:
\* status "pending" (models/transfer.py TransferStatus.PENDING), received_at not set
Transfer(number, s) ==
    [number |-> number, from |-> s.from, to |-> s.to, items |-> s.items,
     status |-> "pending", received |-> FALSE]

\* transfers.py:66-86  INSERT of the transfer (transfer_number is unique) and its items
CreateCommit(c) ==
    /\ sess[c].op = "create" /\ sess[c].pc = "ready"
    /\ UNCHANGED <<stock, ledger, budget, creates, maxBusy, alerts, cacheVars, notifyVars>>
    /\ LET s == sess[c]
           number == TransferNumber(s.count)
       IN  IF \E t \in DOMAIN transfers : transfers[t].number = number
           THEN /\ UNCHANGED transfers
                /\ sess' = [sess EXCEPT ![c] = Response(s, 500, "IntegrityError")]
           ELSE /\ transfers' = Append(transfers, Transfer(number, s))
                /\ sess' = [sess EXCEPT ![c] =
                      Response([s EXCEPT !.tid = Len(transfers) + 1], 201, "created")]

\* AlreadyCompleted without the status guard.
AlreadyCompletedNever(status) == FALSE

\* transfers.py:100
AlreadyCompleted(status) == status = "completed"

\* PUT /transfers/{id}/complete: the SELECT of the transfer and the status guard
CompleteBegin(c, tid) ==
    /\ Accepts(c)
    /\ budget' = budget - 1
    /\ UNCHANGED <<stock, ledger, transfers, creates, maxBusy, alerts, cacheVars, notifyVars>>
    /\ LET s0 == [NoRequest EXCEPT !.op = "complete", !.tid = tid]
       IN  sess' = [sess EXCEPT ![c] =
             IF tid \notin DOMAIN transfers THEN Response(s0, 404, "Transfer not found")
             ELSE IF AlreadyCompleted(transfers[tid].status)
             THEN Response(s0, 400, "Transfer already completed")
             ELSE [s0 EXCEPT !.pc = IF transfers[tid].items = <<>> THEN "ready" ELSE "items",
                             !.from = transfers[tid].from, !.to = transfers[tid].to,
                             !.items = transfers[tid].items, !.idx = 1]]

\* A query for the row of pair p in session s: the row object of the identity map when
\* the session has loaded the row, else the committed row; none when no row is
\* committed (autoflush=False: an added row is not found).
Found(st, s, p) == p \in DOMAIN st
Load(st, s, p) ==
    IF p \in DOMAIN s.loaded THEN s.loaded
    ELSE (p :> [orig |-> st[p], cur |-> st[p]]) @@ s.loaded

\* transfers.py:103-151  one iteration of the loop over transfer.items
CompleteItem(c) ==
    /\ sess[c].op = "complete" /\ sess[c].pc = "items"
    /\ UNCHANGED <<transfers, budget, creates, maxBusy, alerts, cacheVars, notifyVars>>
    /\ LET s == sess[c]
           item == s.items[s.idx]
           q == item.quantity
           fp == <<s.from, item.material_id>>
           tp == <<s.to, item.material_id>>
           l1 == IF Found(stock, s, fp) THEN Load(stock, s, fp) ELSE s.loaded
           s1 == [s EXCEPT !.loaded = l1]
           toFound == Found(stock, s1, tp)
           l2 == IF toFound THEN Load(stock, s1, tp) ELSE l1
           l3 == [l2 EXCEPT ![fp].cur = @ - q]
           l4 == IF toFound THEN [l3 EXCEPT ![tp].cur = @ + q] ELSE l3
           add == IF toFound THEN s.added
                  ELSE Append(s.added, [wh |-> s.to, mat |-> item.material_id,
                                        quantity |-> 0 + q])
           rows == SetToBag({LedgerRow(s.from, item.material_id, "transfer_out", q, s.tid)})
                   (+) SetToBag({LedgerRow(s.to, item.material_id, "transfer_in", q, s.tid)})
       IN  IF ~Found(stock, s, fp) \/ l1[fp].cur < q
           THEN /\ sess' = [sess EXCEPT ![c] =
                              Response(s, 400, "Insufficient stock for transfer")]
                /\ stock' = Close(stock, ledger, s1).stock
                /\ ledger' = Close(stock, ledger, s1).ledger
           ELSE /\ sess' = [sess EXCEPT ![c] =
                      [s EXCEPT !.loaded = l4, !.added = add,
                                !.newLedger = @ (+) rows,
                                !.idx = @ + 1,
                                !.pc = IF s.idx = Len(s.items) THEN "ready" ELSE "items"]]
                /\ UNCHANGED <<stock, ledger>>

\* transfers.py:153-157  status and received_at are set and the session commits
CompleteCommit(c) ==
    /\ sess[c].op = "complete" /\ sess[c].pc = "ready"
    /\ UNCHANGED <<budget, creates, maxBusy, alerts, cacheVars, notifyVars>>
    /\ IF IntegrityError(stock, sess[c])
       THEN /\ UNCHANGED <<stock, ledger, transfers>>
            /\ sess' = [sess EXCEPT ![c] = Response(sess[c], 500, "IntegrityError")]
       ELSE /\ stock' = FlushStock(stock, sess[c])
            /\ ledger' = FlushLedger(ledger, sess[c])
            /\ transfers' = [transfers EXCEPT ![sess[c].tid].status = "completed",
                                              ![sess[c].tid].received = TRUE]
            /\ sess' = [sess EXCEPT ![c] =
                 Response(sess[c], 200, "Transfer completed successfully")]

----------------------------------------------------------------------------
\* The low-stock alerts (api/analytics.py)

\* models/analytics.py Alert, as generate_low_stock_alerts creates it: is_resolved
\* takes its default 0, resolved_at and resolved_by are NULL (FALSE and 0 here).
Alert(material_id, severity) ==
    [alert_type |-> "low_stock", severity |-> severity, entity_type |-> "material",
     entity_id |-> material_id, is_resolved |-> 0,
     resolved_at |-> FALSE, resolved_by |-> 0]

\* Existing without the is_resolved filter: a resolved alert counts as existing.
ExistingAny(al, material_id) ==
    {i \in DOMAIN al :
        /\ al[i].entity_type = "material" /\ al[i].entity_id = material_id
        /\ al[i].alert_type = "low_stock"}

\* analytics.py:808-815  the unresolved low_stock alerts of a material among the
\* committed rows al
Existing(al, material_id) ==
    {i \in DOMAIN al :
        /\ al[i].entity_type = "material" /\ al[i].entity_id = material_id
        /\ al[i].alert_type = "low_stock" /\ al[i].is_resolved = 0}

\* Severity that is critical for every quantity at or below 1.
SeverityCriticalAtOne(quantity) == IF quantity <= 1 THEN "critical" ELSE "warning"

\* analytics.py:818  `'critical' if stock.quantity == 0 else 'warning'`
Severity(quantity) == IF quantity = 0 THEN "critical" ELSE "warning"

\* LowStockItems with a strict comparison: a row at its minimum is not selected.
LowStockItemsStrict(st) == {p \in DOMAIN st : st[p] < min_stock_level[p[2]]}

\* analytics.py:797-803  the stock rows at or below the minimum of their material
LowStockItems(st) == {p \in DOMAIN st : st[p] <= min_stock_level[p[2]]}

\* The orders in which a query without ORDER BY can return the rows of set S.
Orders(S) ==
    {f \in [1..Cardinality(S) -> S] : \A i, j \in DOMAIN f : i # j => f[i] # f[j]}

\* POST /analytics/alerts/generate-low-stock: the SELECT of the low stock rows.
SweepBegin(c) ==
    /\ Accepts(c)
    /\ budget' = budget - 1
    /\ UNCHANGED <<stock, ledger, transfers, creates, maxBusy, alerts, cacheVars, notifyVars>>
    /\ \E order \in Orders(LowStockItems(stock)) :
          sess' = [sess EXCEPT ![c] =
             [NoRequest EXCEPT
                !.op = "sweep",
                !.pc = IF order = <<>> THEN "ready" ELSE "items",
                !.low = [i \in DOMAIN order |->
                           [wh |-> order[i][1], mat |-> order[i][2],
                            quantity |-> stock[order[i]]]],
                !.idx = 1]]

\* analytics.py:807-832  one iteration of the loop: the SELECT of an unresolved alert
\* of the material and, when there is none, db.add of a new alert (autoflush=False:
\* the SELECT does not see the alerts this session has added).
SweepItem(c) ==
    /\ sess[c].op = "sweep" /\ sess[c].pc = "items"
    /\ UNCHANGED <<stock, ledger, transfers, budget, creates, maxBusy, alerts, cacheVars, notifyVars>>
    /\ LET s == sess[c]
           item == s.low[s.idx]
       IN  sess' = [sess EXCEPT ![c] =
             [s EXCEPT
                !.newAlerts = IF Existing(alerts, item.mat) = {}
                              THEN Append(@, Alert(item.mat, Severity(item.quantity)))
                              ELSE @,
                !.idx = @ + 1,
                !.pc = IF s.idx = Len(s.low) THEN "ready" ELSE "items"]]

\* analytics.py:834-839  db.commit() and the response: alerts_created and
\* total_low_stock_items.
SweepCommit(c) ==
    /\ sess[c].op = "sweep" /\ sess[c].pc = "ready"
    /\ UNCHANGED <<stock, ledger, transfers, budget, creates, maxBusy, cacheVars, notifyVars>>
    /\ alerts' = alerts \o sess[c].newAlerts
    /\ sess' = [sess EXCEPT ![c] =
         Response([sess[c] EXCEPT !.result = <<Len(sess[c].newAlerts), Len(sess[c].low)>>],
                  200, "Generated new low stock alerts")]

\* The authenticated user of a request (Depends(get_current_user)).
current_user == [id |-> 1]

\* PUT /analytics/alerts/{alert_id}/resolve (analytics.py:715-732)
ResolveAlert(c, alert_id) ==
    /\ Accepts(c)
    /\ budget' = budget - 1
    /\ UNCHANGED <<stock, ledger, transfers, creates, maxBusy, cacheVars, notifyVars>>
    /\ LET s0 == [NoRequest EXCEPT !.op = "resolve", !.tid = alert_id]
       IN  IF alert_id \notin DOMAIN alerts
           THEN /\ UNCHANGED alerts
                /\ sess' = [sess EXCEPT ![c] = Response(s0, 404, "Alert not found")]
           ELSE /\ alerts' = [alerts EXCEPT ![alert_id].is_resolved = 1,
                                            ![alert_id].resolved_at = TRUE,
                                            ![alert_id].resolved_by = current_user.id]
                /\ sess' = [sess EXCEPT ![c] = Response(s0, 200, "Alert resolved")]

----------------------------------------------------------------------------
InitDb ==
    /\ stock = EmptyFcn
    /\ ledger = EmptyBag
    /\ transfers = <<>>
    /\ sess = [c \in Clients |-> NoRequest]
    /\ alerts = <<>>
    /\ cache = EmptyFcn
    /\ redisUp = TRUE
    /\ connected = "unset"

\* A users table: an admin with the column defaults of the preferences, a manager
\* who has turned the emails off and the push on, and a worker without preferences.
DefaultUsers ==
    (1 :> User("admin", TRUE, TRUE, Prefs(TRUE, FALSE), TRUE))
    @@ (2 :> User("manager", TRUE, TRUE, Prefs(FALSE, TRUE), TRUE))
    @@ (3 :> User("worker", TRUE, TRUE, NoPrefs, TRUE))

InitUsers == users = DefaultUsers /\ smtpUp = TRUE /\ fcmUp = TRUE

\* Overlapping stock transactions, one kind of each effect (incoming, outgoing,
\* absolute), on one warehouse and on an unknown one.
TxNext ==
    \E c \in Clients :
        \/ \E wh \in {1, 3}, mat \in MaterialIds,
              kind \in {"purchase", "consumption", "adjustment"},
              q \in Quantities : TxBegin(c, wh, mat, kind, q)
        \/ TxCommit(c)
        \/ TxInvalidate(c)

TxInit == InitDb /\ InitUsers /\ budget = MaxTransactions /\ creates = 0 /\ maxBusy = 2
TxSpec == TxInit /\ [][TxNext]_vars

\* Stock transactions of every kind, one request at a time.
TxSeqNext ==
    \E c \in Clients :
        \/ \E wh \in {1, 3}, mat \in MaterialIds, kind \in TransactionTypes,
              q \in Quantities : TxBegin(c, wh, mat, kind, q)
        \/ TxCommit(c)
        \/ TxInvalidate(c)

TxSeqInit == InitDb /\ InitUsers /\ budget = MaxTransactions /\ creates = 0 /\ maxBusy = 1
TxSeqSpec == TxSeqInit /\ [][TxSeqNext]_vars

\* Transfers out of warehouse 1 and out of an unknown one, with the purchases that
\* stock warehouse 1.
Next ==
    \E c \in Clients :
        \/ \E q \in Quantities : TxBegin(c, 1, 1, "purchase", q)
        \/ TxCommit(c)
        \/ TxInvalidate(c)
        \/ \E from \in {1, 3}, to \in WarehouseIds, items \in ItemLists :
              CreateBegin(c, from, to, items)
        \/ CreateCommit(c)
        \/ \E tid \in 1..(Len(transfers) + 1) : CompleteBegin(c, tid)
        \/ CompleteItem(c)
        \/ CompleteCommit(c)

Init == InitDb /\ InitUsers /\ budget = MaxRequests /\ creates = MaxTransfers /\ maxBusy = 2
Spec == Init /\ [][Next]_vars

SeqInit == InitDb /\ InitUsers /\ budget = MaxRequests /\ creates = MaxTransfers /\ maxBusy = 1
SeqSpec == SeqInit /\ [][Next]_vars

\* Overlapping purchases in both warehouses and creations and completions of
\* transfers from warehouse 1 to warehouse 2, of one item or of two items of the
\* same material.
TransferNext ==
    \E c \in Clients :
        \/ \E wh \in Warehouses : TxBegin(c, wh, 1, "purchase", 1)
        \/ TxCommit(c)
        \/ TxInvalidate(c)
        \/ \E items \in {l \in ItemLists :
                             l # <<>> /\ \A i \in DOMAIN l : l[i].quantity > 0} :
              CreateBegin(c, 1, 2, items)
        \/ CreateCommit(c)
        \/ \E tid \in 1..(Len(transfers) + 1) : CompleteBegin(c, tid)
        \/ CompleteItem(c)
        \/ CompleteCommit(c)

TransferInit ==
    InitDb /\ InitUsers /\ budget = MaxRequests /\ creates = MaxTransfers /\ maxBusy = 2
TransferSpec == TransferInit /\ [][TransferNext]_vars

\* Overlapping create requests alone, each between two distinct warehouses with items
\* of positive quantities.
CreateNext ==
    \E c \in Clients :
        \/ \E from \in Warehouses, to \in Warehouses,
              items \in {l \in ItemLists :
                           l # <<>> /\ \A i \in DOMAIN l : l[i].quantity > 0} :
              from # to /\ CreateBegin(c, from, to, items)
        \/ CreateCommit(c)

\* Stock transactions on both warehouses, a transfer between them, the sweeps that
\* generate the low-stock alerts and the resolutions, one request at a time.
AlertNext ==
    \E c \in Clients :
        \/ \E wh \in Warehouses, kind \in {"purchase", "consumption"} :
              TxBegin(c, wh, 1, kind, 1)
        \/ TxCommit(c)
        \/ TxInvalidate(c)
        \/ CreateBegin(c, 1, 2, <<[material_id |-> 1, quantity |-> 1]>>)
        \/ CreateCommit(c)
        \/ \E tid \in 1..(Len(transfers) + 1) : CompleteBegin(c, tid)
        \/ CompleteItem(c)
        \/ CompleteCommit(c)
        \/ SweepBegin(c)
        \/ SweepItem(c)
        \/ SweepCommit(c)
        \/ \E alert_id \in 1..(Len(alerts) + 1) : ResolveAlert(c, alert_id)

AlertInit == InitDb /\ InitUsers /\ budget = MaxAlertRequests /\ creates = MaxTransfers /\ maxBusy = 1
AlertSpec == AlertInit /\ [][AlertNext]_vars

\* The cached reads with the purchases and consumptions in warehouse 1 and a transfer
\* to warehouse 2, overlapping, over a Redis server that answers.
CacheNext ==
    \/ \E c \in Clients :
          \/ \E kind \in {"purchase", "consumption"} : TxBegin(c, 1, 1, kind, 1)
          \/ TxCommit(c)
          \/ TxInvalidate(c)
          \/ CreateBegin(c, 1, 2, <<[material_id |-> 1, quantity |-> 1]>>)
          \/ CreateCommit(c)
          \/ \E tid \in DOMAIN transfers : CompleteBegin(c, tid)
          \/ CompleteItem(c)
          \/ CompleteCommit(c)
          \/ \E key \in {inventory_warehouse(1), inventory_warehouse(2),
                           inventory_low_stock} : ReadBegin(c, key)
          \/ ReadSet(c)
    \/ \E key \in DOMAIN cache : Expire(key)

CacheInit == InitDb /\ InitUsers /\ budget = MaxCacheRequests /\ creates = MaxTransfers /\ maxBusy = 2
CacheSpec == CacheInit /\ [][CacheNext]_vars

\* The cached reads of warehouse 1 and the stock transactions on it, one request at
\* a time, over a Redis server that may stop answering.
CacheFailNext ==
    \/ \E c \in Clients :
          \/ \E kind \in {"purchase", "consumption"}, q \in Quantities :
                TxBegin(c, 1, 1, kind, q)
          \/ TxCommit(c)
          \/ TxInvalidate(c)
          \/ \E key \in {inventory_warehouse(1), inventory_low_stock} : ReadBegin(c, key)
          \/ ReadSet(c)
    \/ \E key \in DOMAIN cache : Expire(key)
    \/ RedisFails
    \/ RedisRecovers

CacheFailInit == InitDb /\ InitUsers /\ budget = MaxCacheRequests /\ creates = 0 /\ maxBusy = 1
CacheFailSpec == CacheFailInit /\ [][CacheFailNext]_vars

\* The users tables of the notifications: an admin, a manager and a worker, each
\* without a preferences row, with the emails off, with the push off, or inactive
\* with no address and no device token.
Profiles ==
    {<<TRUE, TRUE, NoPrefs, TRUE>>, <<TRUE, TRUE, Prefs(FALSE, TRUE), TRUE>>,
     <<TRUE, TRUE, Prefs(TRUE, FALSE), TRUE>>, <<FALSE, FALSE, Prefs(TRUE, TRUE), FALSE>>}

UserTables ==
    {(1 :> User("admin", a[1], a[2], a[3], a[4]))
     @@ (2 :> User("manager", m[1], m[2], m[3], m[4]))
     @@ (3 :> User("worker", w[1], w[2], w[3], w[4])) :
        a \in Profiles, m \in Profiles, w \in Profiles}

\* Purchases and consumptions of material 1 in warehouse 1, one request at a time,
\* with the emails and the pushes of the low-stock notification, over a mail server
\* and a Firebase that may stop accepting.
NotifyNext ==
    \/ \E c \in Clients :
          \/ \E kind \in {"purchase", "consumption"} : TxBegin(c, 1, 1, kind, 1)
          \/ TxCommit(c)
          \/ TxInvalidate(c)
          \/ \E u \in DOMAIN users : EmailTask(c, u)
    \/ SmtpFails
    \/ SmtpRecovers
    \/ FcmFails
    \/ FcmRecovers

NotifyInit ==
    /\ InitDb /\ users \in UserTables /\ smtpUp = TRUE /\ fcmUp = TRUE
    /\ budget = MaxNotifyRequests /\ creates = 0 /\ maxBusy = 1
NotifySpec == NotifyInit /\ [][NotifyNext]_vars

CreateInit == InitDb /\ InitUsers /\ budget = MaxCreates /\ creates = MaxCreates /\ maxBusy = 2
CreateSpec == CreateInit /\ [][CreateNext]_vars

----------------------------------------------------------------------------
\* Properties

Pairs == Warehouses \X Materials

\* The quantity of a pair, a pair with no row counting as 0.
Qty(st, p) == IF p \in DOMAIN st THEN st[p] ELSE 0

\* The step is client c's request being accepted.
Begins(c) == ~Busy(c) /\ sess'[c] # sess[c]

\* C1: the committed quantity of every stock row is >= 0.
NonNegativeStock == \A p \in DOMAIN stock : stock[p] >= 0

\* The signed effect of a ledger row: +quantity for purchase, transfer_in and return,
\* -quantity for transfer_out and consumption (an adjustment row has no sign).
SignedDelta(row) ==
    IF row.transaction_type \in Incoming THEN row.quantity
    ELSE IF row.transaction_type \in Outgoing THEN 0 - row.quantity
    ELSE 0

RECURSIVE SumRows(_, _)
SumRows(lg, rows) ==
    IF rows = {} THEN 0
    ELSE LET r == CHOOSE x \in rows : TRUE
         IN  lg[r] * SignedDelta(r) + SumRows(lg, rows \ {r})

SignedSum(lg, p) ==
    SumRows(lg, {r \in DOMAIN lg : <<r.warehouse_id, r.material_id>> = p})

\* C2: the committed quantity of every pair equals the signed sum of the ledger rows
\* recorded so far for that pair.
Reconciled == \A p \in Pairs : Qty(stock, p) = SignedSum(ledger, p)

\* The ledger rows that reference transfer t.
RefRows(lg, t) == [r \in {x \in DOMAIN lg : x.reference_id = t} |-> lg[r]]

\* The ledger rows one completion of transfer t records: per item a transfer_out row on
\* the source and a transfer_in row on the destination.
RECURSIVE ItemRows(_, _, _)
ItemRows(t, tr, i) ==
    IF i > Len(tr.items) THEN EmptyBag
    ELSE SetToBag({LedgerRow(tr.from, tr.items[i].material_id, "transfer_out",
                             tr.items[i].quantity, t)})
         (+) SetToBag({LedgerRow(tr.to, tr.items[i].material_id, "transfer_in",
                                 tr.items[i].quantity, t)})
         (+) ItemRows(t, tr, i + 1)

TransferRows(t) == ItemRows(t, transfers[t], 1)

MovedOnce ==
    \A t \in DOMAIN transfers :
        transfers[t].status = "completed" => RefRows(ledger, t) = TransferRows(t)

SecondCompleteFails ==
    \A c \in Clients :
        (/\ Begins(c)
         /\ sess'[c].op = "complete"
         /\ sess'[c].tid \in DOMAIN transfers
         /\ transfers[sess'[c].tid].status = "completed")
        => /\ sess'[c].pc = "done"
           /\ sess'[c].code = 400
           /\ sess'[c].detail = "Transfer already completed"
           /\ UNCHANGED <<stock, ledger, transfers>>

\* C3: with one request at a time, a complete request on a transfer that is already
\* completed fails with 400 "Transfer already completed" and changes no stock row,
\* ledger row or transfer, so the ledger rows of a completed transfer are those of
\* one completion: each item is moved once.
CompleteTwiceMovesOnce == [][SecondCompleteFails]_vars /\ []MovedOnce

\* C3 witness: a second complete of a transfer with a real item was refused after the
\* first moved the item.
CompleteTwiceWitness ==
    \E c \in Clients :
        /\ sess[c].op = "complete"
        /\ sess[c].detail = "Transfer already completed"
        /\ transfers[sess[c].tid].items # <<>>
        /\ transfers[sess[c].tid].from # transfers[sess[c].tid].to
        /\ \A i \in DOMAIN transfers[sess[c].tid].items :
              transfers[sess[c].tid].items[i].quantity > 0
        /\ RefRows(ledger, sess[c].tid) = TransferRows(sess[c].tid)

\* C4: a complete request writes only in its successful commit: every other step of
\* it, the failure with insufficient stock on an item included, leaves every stock
\* row, the ledger and the transfer unchanged.
FailedCompleteWritesNothing ==
    [][\A c \in Clients :
          (sess'[c] # sess[c] /\ sess'[c].op = "complete" /\ sess'[c].code # 200)
          => UNCHANGED <<stock, ledger, transfers>>]_vars

\* C4 witness: a completion failed on its second item after its first item was
\* satisfiable, and the transfer is still pending.
FailedCompleteWitness ==
    \E c \in Clients :
        /\ sess[c].op = "complete"
        /\ sess[c].detail = "Insufficient stock for transfer"
        /\ sess[c].idx = 2
        /\ transfers[sess[c].tid].status = "pending"

\* C5: a transfer (between two distinct warehouses, of positive quantities) is
\* completed at most once, whatever the interleaving of the complete requests: the
\* ledger never holds more rows that reference it than one completion records.
CompletedAtMostOnce ==
    \A t \in DOMAIN transfers :
        (/\ transfers[t].from # transfers[t].to
         /\ \A i \in DOMAIN transfers[t].items : transfers[t].items[i].quantity > 0)
        => RefRows(ledger, t) \sqsubseteq TransferRows(t)

\* The quantities a pair can hold after the ledger rows of bag lg were applied one
\* after another, in any order in which every row's request succeeds; -1 stands for
\* a pair with no row yet.
RECURSIVE SerialResults(_)
SerialResults(lg) ==
    IF lg = EmptyBag THEN {-1}
    ELSE UNION {
           {ApplyTransaction(r.transaction_type, IF prior = -1 THEN 0 ELSE prior, r.quantity) :
              prior \in {x \in SerialResults(lg (-) SetToBag({r})) :
                           r.transaction_type \in Outgoing
                             => (IF x = -1 THEN 0 ELSE x) >= r.quantity}}
           : r \in DOMAIN lg}

PairRows(lg, p) ==
    [r \in {x \in DOMAIN lg : <<x.warehouse_id, x.material_id>> = p} |-> lg[r]]

\* C6: the committed quantity of every pair is one that applying the committed
\* transactions on the pair one after another, in some order, produces.
Serializable ==
    \A p \in Pairs :
        (IF p \in DOMAIN stock THEN stock[p] ELSE -1) \in SerialResults(PairRows(ledger, p))

\* The pair and the ledger row of the stock transaction of request record s.
PairOf(s) == <<s.wh, s.mat>>
RowOf(s) ==
    [warehouse_id |-> s.wh, material_id |-> s.mat, transaction_type |-> s.kind,
     quantity |-> s.qty, reference_id |-> 0]

OutgoingBegin ==
    \A c \in Clients :
        (Begins(c) /\ sess'[c].op = "tx" /\ sess'[c].kind \in Outgoing)
        => IF Qty(stock, PairOf(sess'[c])) >= sess'[c].qty
           THEN sess'[c].pc = "ready"
           ELSE /\ sess'[c].pc = "done"
                /\ sess'[c].code = 400
                /\ sess'[c].detail = "Insufficient stock"
                /\ UNCHANGED <<stock, ledger>>

OutgoingCommit ==
    \A c \in Clients :
        (/\ sess[c].op = "tx" /\ sess[c].pc = "ready" /\ sess[c].kind \in Outgoing
         /\ sess'[c] # sess[c])
        => /\ sess'[c].code = 201
           /\ Qty(stock, PairOf(sess[c])) >= sess[c].qty
           /\ PairOf(sess[c]) \in DOMAIN stock'
           /\ stock'[PairOf(sess[c])] = Qty(stock, PairOf(sess[c])) - sess[c].qty
           /\ sess'[c].newq = Qty(stock, PairOf(sess[c])) - sess[c].qty

\* C7: with one request at a time, a transfer_out or consumption of quantity q on a
\* pair holding c (0 when the pair has no row) succeeds and leaves c - q when c >= q,
\* and fails with 400 "Insufficient stock", changing nothing, when c < q.
OutgoingRule == [][OutgoingBegin /\ OutgoingCommit]_vars

\* C7 witness: an outgoing transaction was refused for insufficient stock after
\* another one had succeeded.
OutgoingWitness ==
    \E c \in Clients :
        /\ sess[c].op = "tx" /\ sess[c].kind \in Outgoing
        /\ sess[c].code = 400 /\ sess[c].detail = "Insufficient stock"
        /\ \E r \in DOMAIN ledger : r.transaction_type \in Outgoing

\* C8: with one request at a time, an adjustment of quantity v never fails and leaves
\* the pair at exactly v whatever it held before, v itself included.
AdjustmentIsAbsolute ==
    [][\A c \in Clients :
          /\ (Begins(c) /\ sess'[c].op = "tx" /\ sess'[c].kind = "adjustment")
             => sess'[c].pc = "ready"
          /\ (/\ sess[c].op = "tx" /\ sess[c].pc = "ready" /\ sess[c].kind = "adjustment"
              /\ sess'[c] # sess[c])
             => /\ sess'[c].code = 201
                /\ PairOf(sess[c]) \in DOMAIN stock'
                /\ stock'[PairOf(sess[c])] = sess[c].qty
                /\ sess'[c].newq = sess[c].qty]_vars

\* C8 witness: the same adjustment was applied twice to a pair that had also been
\* stocked, and the pair holds the adjustment's value.
AdjustmentWitness ==
    \E v \in Quantities :
        /\ <<1, 1>> \in DOMAIN stock /\ stock[<<1, 1>>] = v
        /\ CopiesIn(LedgerRow(1, 1, "adjustment", v, 0), ledger) = 2
        /\ \E r \in DOMAIN ledger : r.transaction_type \in Incoming /\ r.quantity # v

\* The quantity the commit of stock transaction s writes to its row: the row object's
\* quantity, or nothing when the row object holds the quantity it was loaded with.
RowWritten(st, st2, s) ==
    /\ PairOf(s) \in DOMAIN st2
    /\ st2[PairOf(s)] =
          IF s.added # <<>> THEN s.added[1].quantity
          ELSE IF s.loaded[PairOf(s)].cur # s.loaded[PairOf(s)].orig
          THEN s.loaded[PairOf(s)].cur
          ELSE st[PairOf(s)]
    /\ \A p \in DOMAIN st2 \ {PairOf(s)} : p \in DOMAIN st /\ st2[p] = st[p]

\* C9: every step of a stock-transaction request either commits both the row update
\* and the ledger row of the request (the successful commit) or commits neither.
TransactionIsAtomic ==
    [][\A c \in Clients :
          (sess'[c] # sess[c] /\ (sess[c].op = "tx" \/ sess'[c].op = "tx"))
          => IF sess[c].pc = "ready" /\ sess'[c].code = 201
             THEN /\ ledger' = ledger (+) SetToBag({RowOf(sess[c])})
                  /\ RowWritten(stock, stock', sess[c])
             ELSE UNCHANGED <<stock, ledger>>]_vars

\* C9 witness: one of two overlapping transactions on a pair committed while the
\* other failed at its commit.
AtomicWitness ==
    \E c, d \in Clients :
        /\ sess[c].op = "tx" /\ sess[c].code = 201
        /\ sess[d].op = "tx" /\ sess[d].code = 500
        /\ BagCardinality(ledger) = 1

\* C10: with one request at a time, a successful stock transaction adds exactly the
\* one ledger row of the request, leaves a row for the pair (starting from 0 when
\* there was none), and leaves prior + q for purchase, transfer_in and return; a step
\* that is no successful commit adds no ledger row.
OneLedgerRowPerTransaction ==
    [][\A c \in Clients :
          (sess'[c] # sess[c] /\ (sess[c].op = "tx" \/ sess'[c].op = "tx"))
          => IF sess[c].pc = "ready" /\ sess'[c].code = 201
             THEN LET s == sess'[c]
                      prior == Qty(stock, PairOf(s))
                  IN  /\ ledger' = ledger (+) SetToBag({RowOf(s)})
                      /\ PairOf(s) \in DOMAIN stock'
                      /\ s.kind \in Incoming => stock'[PairOf(s)] = prior + s.qty
                      /\ PairOf(s) \notin DOMAIN stock
                            => stock'[PairOf(s)] =
                                 IF s.kind \in Outgoing THEN 0 - s.qty ELSE 0 + s.qty
                      /\ \A p \in DOMAIN stock' \ {PairOf(s)} :
                            p \in DOMAIN stock /\ stock'[p] = stock[p]
             ELSE ledger' = ledger]_vars

\* C10 witness: a return on a pair that already had a row succeeded after the
\* purchase that created the row.
LedgerRowWitness ==
    \E c \in Clients :
        /\ sess[c].op = "tx" /\ sess[c].code = 201 /\ sess[c].kind = "return"
        /\ CopiesIn(RowOf(sess[c]), ledger) = 1
        /\ \E r \in DOMAIN ledger : r.transaction_type = "purchase"
        /\ BagCardinality(ledger) = 2
        /\ stock[PairOf(sess[c])] = 3

\* A transfer as the specification of creation describes it: two distinct warehouses,
\* at least one item, every quantity > 0.
ValidTransfer(tr) ==
    /\ tr.from # tr.to
    /\ tr.items # <<>>
    /\ \A i \in DOMAIN tr.items : tr.items[i].quantity > 0

\* C11: a transfer is completed if and only if the ledger holds, for each of its items,
\* one transfer_out row on the source and one transfer_in row on the destination that
\* reference it, and a transfer that is not completed has no ledger row referencing
\* it (stated for transfers between two distinct warehouses with at least one item
\* and positive quantities).
CompletedIffLedgerRows ==
    \A t \in DOMAIN transfers :
        ValidTransfer(transfers[t])
        => /\ transfers[t].status = "completed" <=> RefRows(ledger, t) = TransferRows(t)
           /\ transfers[t].status # "completed" => RefRows(ledger, t) = EmptyBag

\* The quantity the items of a transfer move for material m, from item i on.
RECURSIVE ItemSum(_, _, _)
ItemSum(items, m, i) ==
    IF i > Len(items) THEN 0
    ELSE (IF items[i].material_id = m THEN items[i].quantity ELSE 0)
         + ItemSum(items, m, i + 1)

\* The quantity of material m summed over the warehouses ws.
RECURSIVE Total(_, _, _)
Total(st, m, ws) ==
    IF ws = {} THEN 0
    ELSE LET w == CHOOSE x \in ws : TRUE
         IN  Qty(st, <<w, m>>) + Total(st, m, ws \ {w})

\* C12: with one request at a time, a successful completion of a transfer from A to B
\* takes the quantity of its items of each material out of A's row and adds it to B's
\* row, which is created when absent; the total of every material over the
\* warehouses is unchanged and no other row changes.
CompletionMovesStock ==
    [][\A c \in Clients :
          (sess[c].op = "complete" /\ sess'[c] # sess[c] /\ sess'[c].code = 200)
          => LET tr == transfers[sess[c].tid]
             IN  /\ \A p \in Pairs :
                       Qty(stock', p) =
                          Qty(stock, p)
                          - (IF p[1] = tr.from THEN ItemSum(tr.items, p[2], 1) ELSE 0)
                          + (IF p[1] = tr.to THEN ItemSum(tr.items, p[2], 1) ELSE 0)
                 /\ DOMAIN stock' =
                       DOMAIN stock \cup
                       {<<tr.to, tr.items[i].material_id>> : i \in DOMAIN tr.items}
                 /\ \A m \in Materials :
                       Total(stock', m, Warehouses) = Total(stock, m, Warehouses)]_vars

\* C12 witness: a transfer of a positive quantity between two distinct warehouses was
\* completed, and the completion created the destination row.
CompletionWitness ==
    \E c \in Clients :
        /\ sess[c].op = "complete" /\ sess[c].code = 200
        /\ ValidTransfer(transfers[sess[c].tid])
        /\ LET tr == transfers[sess[c].tid]
           IN  /\ stock[<<tr.to, 1>>] = ItemSum(tr.items, 1, 1)
               /\ CopiesIn(LedgerRow(tr.to, 1, "transfer_in", 1, sess[c].tid), ledger) = 1
               /\ stock[<<tr.from, 1>>] = 1

\* C18: every persisted transfer has distinct source and destination warehouses.
DistinctWarehouses ==
    \A t \in DOMAIN transfers : transfers[t].from # transfers[t].to

\* C19: every persisted transfer has at least one item and every persisted transfer
\* item has a quantity > 0.
ItemsPositive ==
    \A t \in DOMAIN transfers :
        /\ transfers[t].items # <<>>
        /\ \A i \in DOMAIN transfers[t].items : transfers[t].items[i].quantity > 0

\* A create request with the input the specification of creation calls valid.
ValidCreate(s) ==
    /\ s.from \in Warehouses /\ s.to \in Warehouses
    /\ ValidTransfer(s)

DistinctNumbers ==
    \A t, u \in DOMAIN transfers : t # u => transfers[t].number # transfers[u].number

\* C20: for any interleaving of create requests with valid input every request
\* succeeds with 201, and the persisted transfers carry pairwise distinct numbers.
NumbersAllocatedAtomically ==
    /\ [][\A c \in Clients :
             (/\ sess[c].op = "create" /\ sess[c].pc = "ready"
              /\ ValidCreate(sess[c]) /\ sess'[c] # sess[c])
             => sess'[c].code = 201]_vars
    /\ []DistinctNumbers

\* The unresolved low_stock alerts of material m.
OpenAlerts(al, m) ==
    {i \in DOMAIN al :
        /\ al[i].alert_type = "low_stock" /\ al[i].entity_type = "material"
        /\ al[i].entity_id = m /\ al[i].is_resolved = 0}

\* C13: at most one unresolved low_stock alert exists per material.
OneOpenAlertPerMaterial ==
    \A m \in Materials : Cardinality(OpenAlerts(alerts, m)) <= 1

\* The stock rows a finished stock transaction or transfer completion has written.
Touched(s) ==
    IF s.op = "tx" THEN {<<s.wh, s.mat>>}
    ELSE {<<w, transfers[s.tid].items[i].material_id>> :
             w \in {transfers[s.tid].from, transfers[s.tid].to},
             i \in DOMAIN transfers[s.tid].items}

\* C14: when a successful stock transaction or transfer completion that has left a
\* pair at or below the min_stock_level of its material returns, an unresolved
\* low_stock alert exists for that material.
LowStockRaisesAlert ==
    [][\A c \in Clients :
          (/\ sess'[c] # sess[c]
           /\ sess'[c].op \in {"tx", "complete"}
           /\ sess'[c].pc = "done" /\ sess'[c].code \in {200, 201})
          => \A p \in Touched(sess'[c]) :
                (p \in DOMAIN stock' /\ stock'[p] <= min_stock_level[p[2]])
                => OpenAlerts(alerts', p[2]) # {}]_vars

\* The cache keys a finished stock mutation has made stale: the inventory key of each
\* warehouse it wrote to, the low-stock key and the dashboard key.
AffectedKeys(s) ==
    {inventory_warehouse(p[1]) : p \in Touched(s)}
    \cup {inventory_low_stock, dashboard_stats}

\* C15: when a successful stock transaction or transfer completion returns, none of
\* the inventory keys of the warehouses it wrote to, the low-stock key and the
\* dashboard key is left in the cache.
MutationInvalidates ==
    [][\A c \in Clients :
          (/\ sess'[c] # sess[c]
           /\ sess'[c].op \in {"tx", "complete"}
           /\ sess'[c].pc = "done" /\ sess'[c].code \in {200, 201})
          => AffectedKeys(sess'[c]) \cap DOMAIN cache' = {}]_vars

\* C16: a step of a stock-mutating request takes a key out of the cache only when the
\* request has committed (its ledger row is written) and is about to return; every
\* step before the commit, and every step that ends the request with 404 or 400,
\* leaves the cache as it is.
InvalidationFollowsCommit ==
    [][\A c \in Clients :
          (sess'[c] # sess[c] /\ sess'[c].op \in {"tx", "complete"})
          => /\ (DOMAIN cache \ DOMAIN cache' # {})
                => /\ sess[c].pc = "committed"
                   /\ BagIn(RowOf(sess[c]), ledger)
                   /\ sess'[c].pc = "done" /\ sess'[c].code = 201
             /\ sess[c].pc # "committed" => cache' = cache
             /\ sess'[c].code \in {400, 404} => cache' = cache]_vars

\* C16 witness: a read has cached the inventory of a warehouse, a stock transaction on
\* the warehouse has committed other rows and returned, and the key is no longer in
\* the cache.
InvalidationWitness ==
    \E c, d \in Clients :
        /\ sess[c].op = "tx" /\ sess[c].pc = "done" /\ sess[c].code = 201
        /\ sess[d].op = "read" /\ sess[d].detail = "computed"
        /\ sess[d].key = inventory_warehouse(sess[c].wh)
        /\ sess[d].result # {}
        /\ sess[d].result # DbRows(stock, sess[d].key)
        /\ sess[d].key \notin DOMAIN cache

\* What the cache operations return while the server cannot be reached.
DegradesToMiss ==
    ~Reaches(connected, redisUp)
    => \A key \in DOMAIN cache \cup {inventory_warehouse(1), inventory_low_stock} :
          /\ cache_get(cache, connected, redisUp, key) =
                [hit |-> FALSE, value |-> {}, raised |-> FALSE]
          /\ cache_set(cache, connected, redisUp, key, DbRows(stock, key)) =
                [cache |-> cache, ok |-> FALSE, raised |-> FALSE]
          /\ cache_delete(cache, connected, redisUp, key) =
                [cache |-> cache, ok |-> FALSE, raised |-> FALSE]
          /\ clear_pattern(cache, connected, redisUp, key.ns) =
                [cache |-> cache, count |-> 0, raised |-> FALSE]

\* C17: while the Redis server cannot be reached, get returns a miss, set and delete
\* return False and clear_pattern returns 0, none of them raising; an inventory read
\* then returns with 200 the rows it computed from the database, and a stock
\* transaction that has committed returns 201 with its stock row and ledger row in
\* place.
CacheFailureNeverFails ==
    /\ []DegradesToMiss
    /\ [][\A c \in Clients :
             /\ (Begins(c) /\ sess'[c].op = "read" /\ ~Reaches(connected, redisUp))
                => /\ sess'[c].pc = "ready"
                   /\ sess'[c].result = DbRows(stock, sess'[c].key)
             /\ (sess[c].op = "read" /\ sess[c].pc = "ready" /\ sess'[c] # sess[c])
                => /\ sess'[c].pc = "done" /\ sess'[c].code = 200
                   /\ sess'[c].result = sess[c].result
                   /\ ~Reaches(connected, redisUp) => cache' = cache
             /\ (sess[c].op = "tx" /\ sess[c].pc = "committed" /\ sess'[c] # sess[c])
                => /\ sess'[c].pc = "done" /\ sess'[c].code = 201
                   /\ sess'[c].newq = stock[PairOf(sess[c])]
                   /\ BagIn(RowOf(sess[c]), ledger)
                   /\ UNCHANGED <<stock, ledger>>
                   /\ ~Reaches(connected, redisUp) => cache' = cache]_vars

\* C17 witness: a stock transaction returned 201 while the server that had cached the
\* inventory of its warehouse did not answer: the key it could not delete is still in
\* the cache, with the rows of before the transaction.
CacheFailureWitness ==
    \E c \in Clients :
        /\ sess[c].op = "tx" /\ sess[c].pc = "done" /\ sess[c].code = 201
        /\ ~redisUp /\ connected = "connected"
        /\ inventory_warehouse(sess[c].wh) \in DOMAIN cache
        /\ cache[inventory_warehouse(sess[c].wh)] # {}
        /\ cache[inventory_warehouse(sess[c].wh)] #
              DbRows(stock, inventory_warehouse(sess[c].wh))

\* C23: a stock-transaction request that ends with 404 (unknown warehouse or material)
\* or with 400 (insufficient stock) leaves the stock table and the ledger as they were:
\* no row is created, in particular no zero-quantity row for a pair that had none, no
\* quantity changes and no ledger row is added.
FailedTransactionWritesNothing ==
    [][\A c \in Clients :
          (sess'[c] # sess[c] /\ sess'[c].op = "tx" /\ sess'[c].code \in {400, 404})
          => /\ DOMAIN stock' = DOMAIN stock
             /\ \A p \in DOMAIN stock : stock'[p] = stock[p]
             /\ ledger' = ledger]_vars

\* C23 witness: a consumption on a pair that has no stock row was refused with 400
\* and the pair still has no row.
FailedTransactionWitness ==
    \E c \in Clients :
        /\ sess[c].op = "tx" /\ sess[c].code = 400
        /\ sess[c].detail = "Insufficient stock"
        /\ sess[c].kind = "consumption"
        /\ PairOf(sess[c]) \notin DOMAIN stock

\* The status and received_at of every transfer agree: pending and not received, or
\* completed and received.
StatusPendingOrCompleted ==
    \A t \in DOMAIN transfers :
        /\ transfers[t].status \in {"pending", "completed"}
        /\ transfers[t].received <=> transfers[t].status = "completed"

\* C24: a transfer's status is always pending or completed (never in_transit or
\* cancelled) and received_at is set exactly when it is completed; a transfer starts
\* pending, no transfer disappears, the only change of status is pending to
\* completed, a completed transfer stays completed, and the warehouses, the number
\* and the items of a transfer never change after creation.
TransferLifecycle ==
    /\ []StatusPendingOrCompleted
    /\ [][/\ Len(transfers') >= Len(transfers)
          /\ \A t \in DOMAIN transfers' \ DOMAIN transfers :
                transfers'[t].status = "pending" /\ ~transfers'[t].received
          /\ \A t \in DOMAIN transfers :
                /\ transfers'[t].items = transfers[t].items
                /\ transfers'[t].from = transfers[t].from
                /\ transfers'[t].to = transfers[t].to
                /\ transfers'[t].number = transfers[t].number
                /\ transfers[t].status = "completed"
                      => transfers'[t] = transfers[t]
                /\ transfers'[t].status # transfers[t].status
                      => /\ transfers[t].status = "pending"
                         /\ transfers'[t].status = "completed"]_vars

\* C24 witness: a transfer with an item was completed, and a later request to
\* complete it again was refused while it stayed completed.
LifecycleWitness ==
    \E t \in DOMAIN transfers, c \in Clients :
        /\ transfers[t].status = "completed" /\ transfers[t].received
        /\ transfers[t].items # <<>>
        /\ sess[c].op = "complete" /\ sess[c].tid = t /\ sess[c].code = 400
        /\ sess[c].detail = "Transfer already completed"

\* C25: the stock table holds at most one row per (warehouse, material) pair: a
\* commit that succeeds inserts each of its lazily created rows on a pair that had no
\* row, one row per pair, so the table grows by exactly the rows inserted; a commit
\* whose new row meets a row that an overlapping request has inserted meanwhile, or
\* a second new row of its own for the pair, fails and inserts nothing.
OneRowPerPair ==
    [][\A c \in Clients :
          (sess[c].op \in {"tx", "complete"} /\ sess[c].pc = "ready"
             /\ sess'[c] # sess[c])
          => LET s == sess[c]
                 clash == \/ \E i \in DOMAIN s.added :
                                <<s.added[i].wh, s.added[i].mat>> \in DOMAIN stock
                          \/ Cardinality(AddedPairs(s)) # Len(s.added)
             IN  IF clash
                 THEN sess'[c].code = 500 /\ stock' = stock
                 ELSE /\ sess'[c].code \in {200, 201}
                      /\ DOMAIN stock' = DOMAIN stock \cup AddedPairs(s)
                      /\ Cardinality(DOMAIN stock') =
                            Cardinality(DOMAIN stock) + Len(s.added)]_vars

\* C25 witness: two overlapping completions of a one-item transfer each created the
\* row of the destination pair, which had none; one committed, the other failed at
\* its commit, and the pair has its row.
OneRowWitness ==
    \E c, d \in Clients :
        /\ sess[c].op = "complete" /\ sess[c].code = 200
        /\ sess[d].op = "complete" /\ sess[d].code = 500
        /\ sess[c].tid = sess[d].tid
        /\ Len(transfers[sess[c].tid].items) = 1
        /\ <<transfers[sess[c].tid].to, 1>> \in DOMAIN stock

\* The materials with a stock row at or below their min_stock_level in table st.
LowMaterials(st) ==
    {m \in Materials : \E p \in DOMAIN st : p[2] = m /\ st[p] <= min_stock_level[m]}

\* C26: when a generate-low-stock sweep returns, every material with a stock row at
\* or below its min_stock_level has an unresolved low_stock alert, and the count the
\* sweep reports is the number of alert rows it added; a sweep run when every such
\* material already has an unresolved alert, as right after a sweep, adds none.
SweepCoversLowStock ==
    [][\A c \in Clients :
          (sess[c].op = "sweep" /\ sess[c].pc = "ready" /\ sess'[c] # sess[c])
          => /\ \A m \in LowMaterials(stock') : OpenAlerts(alerts', m) # {}
             /\ Len(alerts') = Len(alerts) + sess'[c].result[1]
             /\ \A i \in DOMAIN alerts : alerts'[i] = alerts[i]
             /\ (\A m \in LowMaterials(stock) : OpenAlerts(alerts, m) # {})
                   => alerts' = alerts /\ sess'[c].result[1] = 0]_vars

\* C26 witness: a sweep that found a low stock row whose material already had its
\* unresolved alert returned, reporting no new alert.
SweepTwiceWitness ==
    \E c \in Clients :
        /\ sess[c].op = "sweep" /\ sess[c].pc = "done"
        /\ sess[c].result = <<0, 1>>
        /\ Len(alerts) = 1 /\ alerts[1].is_resolved = 0
        /\ LowMaterials(stock) # {}

\* C27: resolve_alert marks the alert resolved, with resolved_at and resolved_by set,
\* and changes no other alert; a resolved alert never changes again; and a sweep that
\* finds a material at or below its minimum with no unresolved alert, as after the
\* resolution of its only one, adds a new unresolved alert for it.
ResolveReenablesAlerting ==
    [][/\ \A i \in DOMAIN alerts :
             alerts[i].is_resolved = 1 => i \in DOMAIN alerts' /\ alerts'[i] = alerts[i]
       /\ \A c \in Clients :
             /\ (Begins(c) /\ sess'[c].op = "resolve" /\ sess'[c].code = 200)
                => LET a == sess'[c].tid
                   IN  /\ alerts'[a].is_resolved = 1
                       /\ alerts'[a].resolved_at
                       /\ alerts'[a].resolved_by = current_user.id
                       /\ \A i \in DOMAIN alerts \ {a} : alerts'[i] = alerts[i]
                       /\ Cardinality(OpenAlerts(alerts, alerts[a].entity_id)) = 1
                          /\ alerts[a].is_resolved = 0
                             => OpenAlerts(alerts', alerts[a].entity_id) = {}
             /\ (sess[c].op = "sweep" /\ sess[c].pc = "ready" /\ sess'[c] # sess[c])
                => \A m \in LowMaterials(stock) :
                      OpenAlerts(alerts, m) = {}
                      => \E i \in DOMAIN alerts' \ DOMAIN alerts :
                            i \in OpenAlerts(alerts', m)]_vars

\* C27 witness: the only unresolved alert of a material was resolved and a later
\* sweep, finding the material still low, added a new unresolved alert next to the
\* resolved one.
ResolveWitness ==
    \E c \in Clients :
        /\ sess[c].op = "sweep" /\ sess[c].pc = "done" /\ sess[c].result[1] = 1
        /\ Len(alerts) = 2
        /\ alerts[1].is_resolved = 1 /\ alerts[1].resolved_at
        /\ alerts[1].resolved_by = current_user.id
        /\ alerts[2].is_resolved = 0 /\ alerts[2].entity_id = alerts[1].entity_id

\* C28: every alert a sweep adds is an unresolved low_stock alert of a material that
\* has a stock row at or below its min_stock_level, and its severity is that of such
\* a row: critical when the row's quantity is 0, warning otherwise.
SeverityFollowsQuantity ==
    [][\A c \in Clients :
          (sess[c].op = "sweep" /\ sess[c].pc = "ready" /\ sess'[c] # sess[c])
          => \A i \in DOMAIN alerts' \ DOMAIN alerts :
                /\ alerts'[i].alert_type = "low_stock"
                /\ alerts'[i].entity_type = "material"
                /\ alerts'[i].is_resolved = 0
                /\ \E p \in DOMAIN stock :
                      /\ p[2] = alerts'[i].entity_id
                      /\ stock[p] <= min_stock_level[p[2]]
                      /\ alerts'[i].severity =
                            IF stock[p] = 0 THEN "critical" ELSE "warning"]_vars

\* C28 witness: a sweep has added a critical alert while a row is at 0 and a warning
\* alert while a row is at its minimum 1.
SeverityWitness ==
    /\ Len(alerts) = 2
    /\ alerts[1].severity = "critical" /\ alerts[2].severity = "warning"
    /\ \E p \in DOMAIN stock : stock[p] = 0
    /\ \E p \in DOMAIN stock : stock[p] = 1
    /\ \E c \in Clients : sess[c].op = "sweep" /\ sess[c].pc = "done"

\* C30: a request to complete a pending transfer (between two distinct warehouses,
\* with positive quantities) ends with 200 if and only if, for every material, the
\* source warehouse holds at least the sum of the quantities of the transfer's items
\* of that material, whether or not the destination has a row for the material.
CompletesIffSufficient ==
    [][\A c \in Clients :
          (/\ sess[c].op = "complete" /\ sess[c].pc \in {"items", "ready"}
           /\ sess'[c] # sess[c] /\ sess'[c].pc = "done"
           /\ ValidTransfer(transfers[sess[c].tid]))
          => (sess'[c].code = 200
                <=> \A m \in Materials :
                       Qty(stock, <<sess[c].from, m>>) >= ItemSum(sess[c].items, m, 1))]_vars

\* C29: a GET of a warehouse's inventory or of the low-stock view that begins when
\* every stock-transaction request has returned (none is in flight, and no transfer
\* has been or is being completed) and that is answered from the cache returns the
\* rows as committed in the database.
QuiescentReadsAreFresh ==
    [][\A c \in Clients :
          (/\ Begins(c) /\ sess'[c].op = "read"
           /\ sess'[c].pc = "done" /\ sess'[c].code = 200
           /\ \A d \in Clients : Busy(d) => sess[d].op \notin {"tx", "complete"}
           /\ \A t \in DOMAIN transfers : transfers[t].status # "completed")
          => sess'[c].result = DbRows(stock, sess'[c].key)]_vars

\* The users an email of request s is queued for or was sent to, and those a push of
\* it was delivered to.
Mailed(s) == s.queued \cup s.emailed
Pushed(s) == s.pushed

\* C21: of the low-stock notification of a stock transaction, every email goes to an
\* admin or manager whose preferences do not turn email_low_stock off, and every push
\* to an admin or manager whose preferences do not turn push_low_stock off; a user of
\* another role gets neither.
NotificationsHonourPreferences ==
    \A c \in Clients :
        sess[c].op = "tx"
        => /\ \A u \in Mailed(sess[c]) :
                 /\ users[u].role \in {"admin", "manager"}
                 /\ ~(users[u].prefs.exists /\ ~users[u].prefs.email_low_stock)
           /\ \A u \in Pushed(sess[c]) :
                 /\ users[u].role \in {"admin", "manager"}
                 /\ ~(users[u].prefs.exists /\ ~users[u].prefs.push_low_stock)

\* C22: the rest of a stock transaction after its commit ends with 201 and the
\* committed quantity whether or not Firebase accepts the push, and neither it nor an
\* email task, sent or failed, changes the stock row, the ledger or the response.
DeliveryFailureNeverFails ==
    [][\A c \in Clients :
          /\ (sess[c].op = "tx" /\ sess[c].pc = "committed" /\ sess'[c] # sess[c])
             => /\ sess'[c].pc = "done" /\ sess'[c].code = 201
                /\ sess'[c].newq = stock[PairOf(sess[c])]
                /\ BagIn(RowOf(sess[c]), ledger)
                /\ UNCHANGED <<stock, ledger>>
          /\ (sess[c].op = "tx" /\ sess[c].pc = "done" /\ sess[c].queued # {}
                /\ sess'[c] # sess[c] /\ budget' = budget)
             => /\ sess'[c].pc = "done" /\ sess'[c].code = sess[c].code
                /\ sess'[c].newq = sess[c].newq
                /\ ~smtpUp => sess'[c].emailed = sess[c].emailed
                /\ UNCHANGED <<stock, ledger>>]_vars

\* C22 witness: a stock transaction that left its pair at the minimum returned 201
\* although neither the push to the admin and the manager, who have device tokens,
\* nor any of its emails was delivered.
DeliveryFailureWitness ==
    \E c \in Clients :
        /\ sess[c].op = "tx" /\ sess[c].pc = "done" /\ sess[c].code = 201
        /\ sess[c].newq <= min_stock_level[sess[c].mat]
        /\ stock[PairOf(sess[c])] = sess[c].newq
        /\ \A u \in {1, 2} : users[u].is_active /\ users[u].token
        /\ EmailRecipients(users) # {}
        /\ sess[c].pushed = {} /\ sess[c].emailed = {} /\ sess[c].queued = {}
        /\ ~smtpUp /\ ~fcmUp

====
